---- MODULE Spec2Model ----
(***************************************************************************)
(* Extension-type compilation (numba/exttypes/compileclass.py).            *)
(*                                                                         *)
(* An ExtensionCompiler drives the compilation of one Python class into an *)
(* extension type: infer(), validate(), finalize_tables(), compile().      *)
(* Its collaborators (inheriter, attrbuilder, vtabbuilder, the signature   *)
(* processor, the type-inference pipeline, the validators and the          *)
(* ExtensionType object itself) are injected.  Python exceptions are       *)
(* modelled as outcomes: a raising statement ends the running call.        *)
(*                                                                         *)
(* Macro expansion (numba/macro.py): expand_macros folds the constants of  *)
(* each block into one pool and rewrites the macro references of the block.*)
(***************************************************************************)
EXTENDS Naturals, Sequences, FiniteSets, TLC

VARIABLES
    active,                 \* the compilers that exist in this run
    py_class,               \* the class each compiler was constructed for
    inheriter,              \* the class of the injected inheriter object
    base_attribute_table,   \* base.exttype.attribute_table of each parent
    base_vtab_type,         \* base.exttype.vtab_type of each parent
    class_dict,             \* self.class_dict
    attribute_table,        \* self.ext_type.attribute_table
    vtab_type,              \* self.ext_type.vtab_type
    symtab,                 \* self.ext_type.symtab
    methods,                \* self.methods
    method_types,           \* self.method_types
    func_envs,              \* self.func_envs
    pc,                     \* position of the running call ("idle": none)
    op,                     \* the call that is running or that ran last
    err,                    \* the exception that ended the last call
    trace,                  \* stages the running / last call went through
    arg,                    \* what the last call was given
    vtab,                   \* what the last build_vtab call returned
    lifecycle,              \* canonical stages completed in order (0..3)
    produced,               \* create_new_extension_type was invoked
    blocks,                 \* blocks.values(), in the order of the loop
    blocks_in,              \* the blocks as expand_macros was given them
    constants,              \* the pool of constants of expand_macros
    mpc,                    \* the block and the pass expand_macros is at
    exception               \* the exception that escaped expand_macros

vars == <<active, py_class, inheriter,
          base_attribute_table, base_vtab_type, class_dict, attribute_table,
          vtab_type, symtab, methods, method_types, func_envs, pc, op, err,
          trace, arg, vtab, lifecycle, produced,
          blocks, blocks_in, constants, mpc, exception>>

\* ---------------------------------------------------------------- bounds

\* the longest exttype_validators list drawn
MaxValidators == 2

\* the most instructions in the blocks given to expand_macros
MaxInstrs == 3

\* ------------------------------------------------------------- Python dict
\* A dict that keeps insertion order: a sequence of <<key, value>> pairs with
\* distinct keys.

HasKey(d, k) == \E i \in DOMAIN d : d[i][1] = k

IndexOf(d, k) == CHOOSE i \in DOMAIN d : d[i][1] = k

GetItem(d, k) == d[IndexOf(d, k)][2]

KeysOf(d) == {d[i][1] : i \in DOMAIN d}

KeySeq(d) == [i \in DOMAIN d |-> d[i][1]]

SetItem(d, k, v) ==
    IF HasKey(d, k) THEN [d EXCEPT ![IndexOf(d, k)] = <<k, v>>]
    ELSE Append(d, <<k, v>>)

RECURSIVE update(_, _)
update(d, e) ==
    IF e = <<>> THEN d
    ELSE update(SetItem(d, Head(e)[1], Head(e)[2]), Tail(e))

\* every order in which the keys of a hash dict may be iterated
Orderings(S) ==
    {s \in [1..Cardinality(S) -> S] : \A i, j \in 1..Cardinality(S) :
        i # j => s[i] # s[j]}

\* ------------------------------------------------------------ table types

NoneTable == [kind |-> "None", dict |-> <<>>, finalized |-> FALSE]

NewTable == [kind |-> "table", dict |-> <<>>, finalized |-> FALSE]

Table(d, fin) == [kind |-> "table", dict |-> d, finalized |-> fin]

NoneList == [kind |-> "None", items |-> <<>>]

UnsetList == [kind |-> "unset", items |-> <<>>]

List(s) == [kind |-> "list", items |-> s]

\* --------------------------------------------------------------- the input

Compilers == {1, 2}

Bases == {"A", "B"}

BaseLists == {<<>>, <<"A">>, <<"A", "B">>, <<"B", "A">>}

\* the already compiled parents: A and B both declare attribute x and
\* methods m and n, with different types and in a different order
BaseAttributes ==
    [b \in Bases |->
        IF b = "A" THEN Table(<<<<"x", "int">>, <<"y", "float">>>>, TRUE)
        ELSE Table(<<<<"x", "float">>, <<"z", "int">>>>, TRUE)]

BaseMethods ==
    [b \in Bases |->
        IF b = "A" THEN Table(<<<<"m", "sA">>, <<"n", "sA">>>>, TRUE)
        ELSE Table(<<<<"n", "sB">>, <<"m", "sB">>>>, TRUE)]

MemberNames == {"__init__", "m", "k", "w", "x"}

\* vars(py_class): functions (with their declared signature) and attribute
\* type declarations (w, new to the hierarchy, and x, which A and B declare)
MemberValue(n) ==
    IF n = "w" THEN <<"type", "int">>
    ELSE IF n = "x" THEN <<"type", "double">>
    ELSE <<"func", "s_" \o n>>

Members == {[n \in D |-> MemberValue(n)] : D \in SUBSET MemberNames}

Classes == [bases : BaseLists, members : Members]

\* the values of exttype_validators: None (the class attribute as
\* ExtensionCompiler sets it) or a list of validators, each of which passes
\* or rejects the extension type
ValidatorLists ==
    {<<<<"None", "None">>>>} \cup
    UNION {[1..n -> {<<"validator", "pass">>, <<"validator", "reject">>}] :
              n \in 0..MaxValidators}

\* the order in which the signature processor lists the methods
MethodOrder == <<"__init__", "m", "k">>

\* ------------------------------------------------------------------- Init

macro_state == <<blocks, blocks_in, constants, mpc, exception>>

NoException ==
    [type |-> "none", head |-> "", line |-> 0, pass |-> "none", at |-> 0]

\* expand_macros is not called in this run
NoMacroRun ==
    /\ blocks = <<>>
    /\ blocks_in = <<>>
    /\ constants = <<>>
    /\ mpc = [blk |-> 0, pass |-> "none"]
    /\ exception = NoException

DefaultClass == [bases |-> <<>>, members |-> <<>>]

\* the state after ExtensionCompiler.__init__ of every compiler in A:
\* class_dict = dict(vars(py_class)), func_envs = {}, a new ext_type
InitCompilers(A, classes, inheriters) ==
    /\ active = A
    /\ \E f \in [A -> classes] :
          py_class = [c \in Compilers |->
                         IF c \in A THEN f[c] ELSE DefaultClass]
    /\ \E f \in [A -> inheriters] :
          inheriter = [c \in Compilers |->
                          IF c \in A THEN f[c] ELSE "AttributesInheriter"]
    /\ base_attribute_table = BaseAttributes
    /\ base_vtab_type = BaseMethods
    /\ class_dict = [c \in Compilers |-> py_class[c].members]
    /\ attribute_table = [c \in Compilers |-> NoneTable]
    /\ vtab_type = [c \in Compilers |-> NoneTable]
    /\ symtab = [c \in Compilers |-> <<>>]
    /\ methods = [c \in Compilers |-> UnsetList]
    /\ method_types = [c \in Compilers |-> UnsetList]
    /\ func_envs = [c \in Compilers |-> <<>>]
    /\ pc = [c \in Compilers |-> "idle"]
    /\ op = [c \in Compilers |-> "none"]
    /\ err = [c \in Compilers |-> "none"]
    /\ trace = [c \in Compilers |-> <<>>]
    /\ arg = [c \in Compilers |-> <<>>]
    /\ vtab = [c \in Compilers |-> NoneTable]
    /\ lifecycle = [c \in Compilers |-> 0]
    /\ produced = [c \in Compilers |-> FALSE]

Init ==
    /\ InitCompilers({1}, Classes, {"AttributesInheriter", "subclass"})
    /\ NoMacroRun

\* ------------------------------------------------- the ExtensionType object

\* ext_type.add_method(name, signature): the vtab type takes the signature
\* under the method's name; a table that was finalized rejects the change
add_method(vt, name, sig) ==
    IF vt.kind = "None" THEN [exc |-> "AttributeError", table |-> vt]
    ELSE IF vt.finalized THEN [exc |-> "LayoutError", table |-> vt]
    ELSE [exc |-> "none", table |-> [vt EXCEPT !.dict = SetItem(@, name, sig)]]

\* adding an attribute to ext_type.attribute_table
add_attribute(at, name, type) ==
    IF at.kind = "None" THEN [exc |-> "AttributeError", table |-> at]
    ELSE IF at.finalized THEN [exc |-> "LayoutError", table |-> at]
    ELSE [exc |-> "none", table |-> [at EXCEPT !.dict = SetItem(@, name, type)]]

\* the objects handed to inherit_attributes / inherit_methods
ExtTypeObj(at, vt) ==
    [kind |-> "ext_type", attribute_table |-> at, vtab_type |-> vt]

\* ----------------------------------------------------- AttributesInheriter

\* inherit_attributes as it would be if it moved the entries out of the
\* parent (popitem by popitem) before looking up the table to move them to
inherit_attributes_moving(derived_ext_type, base_ext_type) ==
    [exc |-> IF derived_ext_type.kind # "ext_type" THEN "AttributeError"
             ELSE "none",
     derived |-> IF derived_ext_type.kind # "ext_type" THEN derived_ext_type
                 ELSE [derived_ext_type EXCEPT !.attribute_table.dict =
                          update(@, base_ext_type.attribute_table.dict)],
     base |-> [base_ext_type EXCEPT !.attribute_table.dict = <<>>]]

\* derived_ext_type.attribute_table.attributedict.update(
\*     base_ext_type.attribute_table.attributedict)
\* Reading .attribute_table of an object that is not an extension type (a
\* table type has attributedict only) raises AttributeError.
inherit_attributes(derived_ext_type, base_ext_type) ==
    IF derived_ext_type.kind # "ext_type"
    THEN [exc |-> "AttributeError", derived |-> derived_ext_type,
          base |-> base_ext_type]
    ELSE [exc |-> "none",
          derived |-> [derived_ext_type EXCEPT !.attribute_table.dict =
                          update(@, base_ext_type.attribute_table.dict)],
          base |-> base_ext_type]

inherit_methods(derived_ext_type, base_ext_type) ==
    IF derived_ext_type.kind # "ext_type"
    THEN [exc |-> "AttributeError", derived |-> derived_ext_type,
          base |-> base_ext_type]
    ELSE [exc |-> "none",
          derived |-> [derived_ext_type EXCEPT !.vtab_type.dict =
                          update(@, base_ext_type.vtab_type.dict)],
          base |-> base_ext_type]

\* the loop "for base in bases: self.inherit_attributes(attr_table, base.ext_type)"
\* (base.ext_type is read as the base's extension type, base.exttype)
RECURSIVE attribute_loop(_, _, _, _)
attribute_loop(attr_table, bases, bat, bvt) ==
    IF bases = <<>> THEN [exc |-> "none", table |-> attr_table, bat |-> bat]
    ELSE LET b == Head(bases)
             r == inherit_attributes(attr_table, ExtTypeObj(bat[b], bvt[b]))
         IN IF r.exc # "none"
            THEN [exc |-> r.exc, table |-> r.derived,
                  bat |-> [bat EXCEPT ![b] = r.base.attribute_table]]
            ELSE attribute_loop(r.derived, Tail(bases),
                     [bat EXCEPT ![b] = r.base.attribute_table], bvt)

RECURSIVE method_loop(_, _, _, _)
method_loop(vtable, bases, bat, bvt) ==
    IF bases = <<>> THEN [exc |-> "none", table |-> vtable, bvt |-> bvt]
    ELSE LET b == Head(bases)
             r == inherit_methods(vtable, ExtTypeObj(bat[b], bvt[b]))
         IN IF r.exc # "none"
            THEN [exc |-> r.exc, table |-> r.derived,
                  bvt |-> [bvt EXCEPT ![b] = r.base.vtab_type]]
            ELSE method_loop(r.derived, Tail(bases), bat,
                     [bvt EXCEPT ![b] = r.base.vtab_type])

\* builds attr_table, merges the bases into it, and falls off the end: the
\* caller gets None
build_attribute_table(bases, bat, bvt) ==
    LET r == attribute_loop(NewTable, bases, bat, bvt)
    IN [exc |-> r.exc, ret |-> NoneTable, bat |-> r.bat]

build_method_table(bases, bat, bvt) ==
    LET r == method_loop(NewTable, bases, bat, bvt)
    IN [exc |-> r.exc, ret |-> NoneTable, bvt |-> r.bvt]

\* AttributesInheriter.inherit(ext_type): an exception in the first half
\* leaves ext_type.attribute_table as it was, one in the second half leaves
\* ext_type.vtab_type as it was
inherit(bases, at, vt, bat, bvt) ==
    LET a == build_attribute_table(bases, bat, bvt)
        m == build_method_table(bases, a.bat, bvt)
    IN IF a.exc # "none"
       THEN [exc |-> a.exc, attribute_table |-> at, vtab_type |-> vt,
             bat |-> a.bat, bvt |-> bvt]
       ELSE IF m.exc # "none"
       THEN [exc |-> m.exc, attribute_table |-> a.ret, vtab_type |-> vt,
             bat |-> a.bat, bvt |-> m.bvt]
       ELSE [exc |-> "none", attribute_table |-> a.ret, vtab_type |-> m.ret,
             bat |-> a.bat, bvt |-> m.bvt]

\* An inheriter that takes (ext_type, class_dict), as infer_attributes calls
\* it: fresh tables, the parents' dicts merged into them in base order.
RECURSIVE merge_bases(_, _, _)
merge_bases(d, bases, tables) ==
    IF bases = <<>> THEN d
    ELSE merge_bases(update(d, tables[Head(bases)].dict), Tail(bases), tables)

subclass_inherit(bases, bat, bvt) ==
    [attribute_table |-> Table(merge_bases(<<>>, bases, bat), FALSE),
     vtab_type |-> Table(merge_bases(<<>>, bases, bvt), FALSE)]

\* the keys of the class dict that hold a minitypes.Type
TypeKeys(cd) == {n \in DOMAIN cd : cd[n][1] = "type"}

\* for name, value in class_dict.iteritems(): a minitypes.Type value goes
\* into ext_type.symtab; order is the order in which the dict yields the
\* keys (the others are passed over)
RECURSIVE process_class_attribute_types(_, _, _)
process_class_attribute_types(st, cd, order) ==
    IF order = <<>> THEN st
    ELSE LET name == Head(order)
         IN process_class_attribute_types(
                IF cd[name][1] = "type" THEN SetItem(st, name, cd[name][2])
                ELSE st,
                cd, Tail(order))

\* ------------------------------------------------------ ExtensionCompiler

inputs == <<active, py_class, inheriter>>

parents == <<base_attribute_table, base_vtab_type>>

\* self.class_dict = dict(vars(py_class)) as it would be without the
\* copy (self.class_dict = vars(py_class)): a store shows in the class
vars_after_store_aliased(class_vars, cd) == cd

\* self.class_dict = dict(vars(py_class)): the class dict is a dict of its
\* own, so vars(py_class) after a store that made the class dict cd is
\* what it was
vars_after_store(class_vars, cd) == class_vars

\* the call on compiler c returns or raises e
Finish(c, e) ==
    /\ pc' = [pc EXCEPT ![c] = "idle"]
    /\ err' = [err EXCEPT ![c] = e]

\* the call on compiler c goes on to stage next
Goto(c, next) ==
    /\ pc' = [pc EXCEPT ![c] = next]
    /\ UNCHANGED err

\* the driver calls compiler.infer()
CallInfer(c) ==
    /\ c \in active
    /\ pc[c] = "idle"
    /\ pc' = [pc EXCEPT ![c] = "infer_attributes"]
    /\ op' = [op EXCEPT ![c] = "infer"]
    /\ err' = [err EXCEPT ![c] = "none"]
    /\ trace' = [trace EXCEPT ![c] = <<>>]
    /\ arg' = [arg EXCEPT ![c] = <<>>]
    /\ lifecycle' = [lifecycle EXCEPT ![c] = 0]
    /\ UNCHANGED macro_state
    /\ UNCHANGED <<inputs, parents, class_dict, attribute_table, vtab_type,
                   symtab, methods, method_types, func_envs, vtab,
                   produced>>

\* infer_attributes: self.inheriter.inherit(self.ext_type, self.class_dict),
\* then self.inheriter.process_class_attribute_types(...).  inherit of
\* AttributesInheriter takes ext_type only: the call raises TypeError.
infer_attributes(c) ==
    /\ pc[c] = "infer_attributes"
    /\ IF inheriter[c] = "AttributesInheriter"
       THEN /\ Finish(c, "TypeError")
            /\ trace' = [trace EXCEPT ![c] = Append(@, "raise")]
            /\ UNCHANGED <<attribute_table, vtab_type, symtab>>
       ELSE /\ LET r == subclass_inherit(py_class[c].bases,
                            base_attribute_table, base_vtab_type)
               IN /\ attribute_table' = [attribute_table EXCEPT
                                            ![c] = r.attribute_table]
                  /\ vtab_type' = [vtab_type EXCEPT ![c] = r.vtab_type]
            /\ \E order \in Orderings(TypeKeys(class_dict[c])) :
                  symtab' = [symtab EXCEPT ![c] =
                      process_class_attribute_types(@, class_dict[c], order)]
            /\ trace' = [trace EXCEPT ![c] =
                            @ \o <<"inherit", "class_attribute_types">>]
            /\ Goto(c, "process_method_signatures")
    /\ UNCHANGED macro_state
    /\ UNCHANGED <<inputs, parents, class_dict, methods, method_types,
                   func_envs, op, arg, vtab, lifecycle, produced>>

\* MethodSignatureProcessor.get_method_signatures(): one Method per
\* function of the class dict, with its signature
IsMethod(v) == v[1] \in {"func", "Method"}

get_method_signatures(cd) ==
    LET names == SelectSeq(MethodOrder,
                     LAMBDA n : n \in DOMAIN cd /\ IsMethod(cd[n]))
    IN [i \in DOMAIN names |-> <<names[i], cd[names[i]][2]>>]

\* the loop of process_method_signatures as it would be if a method the
\* parents already declare kept the inherited signature
RECURSIVE signature_loop_keep_inherited(_, _, _)
signature_loop_keep_inherited(ms, vt, cd) ==
    IF ms = <<>> THEN [exc |-> "none", vtab_type |-> vt, class_dict |-> cd]
    ELSE LET r == IF vt.kind = "table" /\ HasKey(vt.dict, Head(ms)[1])
                  THEN [exc |-> "none", table |-> vt]
                  ELSE add_method(vt, Head(ms)[1], Head(ms)[2])
         IN IF r.exc # "none"
            THEN [exc |-> r.exc, vtab_type |-> vt, class_dict |-> cd]
            ELSE signature_loop_keep_inherited(Tail(ms), r.table,
                     [cd EXCEPT ![Head(ms)[1]] = <<"Method", Head(ms)[2]>>])

\* for method, method_type in zip(self.methods, self.method_types):
\*     self.ext_type.add_method(method.name, method_type)
\*     self.class_dict[method.name] = method
RECURSIVE signature_loop(_, _, _)
signature_loop(ms, vt, cd) ==
    IF ms = <<>> THEN [exc |-> "none", vtab_type |-> vt, class_dict |-> cd]
    ELSE LET r == add_method(vt, Head(ms)[1], Head(ms)[2])
         IN IF r.exc # "none"
            THEN [exc |-> r.exc, vtab_type |-> vt, class_dict |-> cd]
            ELSE signature_loop(Tail(ms), r.table,
                     [cd EXCEPT ![Head(ms)[1]] = <<"Method", Head(ms)[2]>>])

process_method_signatures(c) ==
    /\ pc[c] = "process_method_signatures"
    /\ \E ok \in BOOLEAN :
          IF ~ok
          THEN \* the processor or a method validator rejects a signature
               /\ Finish(c, "SignatureError")
               /\ trace' = [trace EXCEPT ![c] = Append(@, "raise")]
               /\ UNCHANGED <<methods, method_types, vtab_type, class_dict,
                              py_class>>
          ELSE LET ms == get_method_signatures(class_dict[c])
                   r == signature_loop(ms, vtab_type[c], class_dict[c])
               IN /\ methods' = [methods EXCEPT ![c] = List(ms)]
                  /\ method_types' = [method_types EXCEPT ![c] =
                         List([i \in DOMAIN ms |-> ms[i][2]])]
                  /\ vtab_type' = [vtab_type EXCEPT ![c] = r.vtab_type]
                  /\ class_dict' = [class_dict EXCEPT ![c] = r.class_dict]
                  /\ py_class' = [py_class EXCEPT ![c].members =
                                      vars_after_store(@, r.class_dict)]
                  /\ IF r.exc # "none"
                     THEN /\ Finish(c, r.exc)
                          /\ trace' = [trace EXCEPT ![c] = Append(@, "raise")]
                     ELSE /\ Goto(c, "type_infer_init_method")
                          /\ trace' = [trace EXCEPT ![c] =
                                          Append(@, "signatures")]
    /\ UNCHANGED macro_state
    /\ UNCHANGED <<active, inheriter, parents, attribute_table, symtab,
                   func_envs, op, arg, vtab, lifecycle, produced>>

\* type_infer_method(method): pipeline.compile2 infers the method (ok) or
\* raises; the FuncEnv is kept and the inferred signature is registered
type_infer_method(method, ok, fe, vt) ==
    IF ~ok
    THEN [exc |-> "TypeInferenceError", func_envs |-> fe, vtab_type |-> vt]
    ELSE LET r == add_method(vt, method[1], method[2])
         IN [exc |-> r.exc,
             func_envs |-> SetItem(fe, method[1], method[2]),
             vtab_type |-> r.table]

\* initfunc = self.class_dict.get('__init__', None); without one the stage
\* returns at once.  With one, self.type_infer_method(initfunc, '__init__')
\* passes one argument more than type_infer_method takes: TypeError.
type_infer_init_method(c) ==
    /\ pc[c] = "type_infer_init_method"
    /\ IF "__init__" \notin DOMAIN class_dict[c]
       THEN /\ Goto(c, "build_attributes")
            /\ UNCHANGED trace
       ELSE /\ Finish(c, "TypeError")
            /\ trace' = [trace EXCEPT ![c] = Append(@, "raise")]
    /\ UNCHANGED macro_state
    /\ UNCHANGED <<inputs, parents, class_dict, attribute_table, vtab_type,
                   symtab, methods, method_types, func_envs, op, arg, vtab,
                   lifecycle, produced>>

\* attrbuilder.build_attributes(ext_type): every symtab entry that was not
\* inherited becomes a new entry of the attribute table, in symtab order;
\* an inherited attribute the class declares itself keeps its place and
\* takes the class's type (own declarations are merged last)
RECURSIVE attrbuilder_build_attributes(_, _)
attrbuilder_build_attributes(at, st) ==
    IF st = <<>> THEN [exc |-> "none", table |-> at]
    ELSE LET r == add_attribute(at, Head(st)[1], Head(st)[2])
         IN IF r.exc # "none" THEN r
            ELSE attrbuilder_build_attributes(r.table, Tail(st))

build_attributes(c) ==
    /\ pc[c] = "build_attributes"
    /\ LET r == attrbuilder_build_attributes(attribute_table[c], symtab[c])
       IN /\ attribute_table' = [attribute_table EXCEPT ![c] = r.table]
          /\ IF r.exc # "none"
             THEN /\ Finish(c, r.exc)
                  /\ trace' = [trace EXCEPT ![c] = Append(@, "raise")]
             ELSE /\ Goto(c, "type_infer_methods")
                  /\ trace' = [trace EXCEPT ![c] =
                                  Append(@, "build_attributes")]
    /\ UNCHANGED macro_state
    /\ UNCHANGED <<inputs, parents, class_dict, vtab_type, symtab, methods,
                   method_types, func_envs, op, arg, vtab, lifecycle,
                   produced>>

\* type_infer_methods as it would be if a failed inference were noted and
\* the loop went on to the next method
RECURSIVE type_infer_loop_keep_going(_, _, _, _, _)
type_infer_loop_keep_going(ms, failAt, fe, vt, events) ==
    IF ms = <<>>
    THEN [exc |-> "none", func_envs |-> fe, vtab_type |-> vt,
          events |-> events]
    ELSE IF Head(ms)[1] \in {"__new__", "__init__"}
    THEN type_infer_loop_keep_going(Tail(ms), failAt, fe, vt, events)
    ELSE LET r == type_infer_method(Head(ms), failAt # 1, fe, vt)
         IN type_infer_loop_keep_going(Tail(ms),
                IF failAt = 0 THEN 0 ELSE failAt - 1,
                r.func_envs, r.vtab_type,
                Append(events, IF r.exc # "none" THEN "raise"
                               ELSE "infer:" \o Head(ms)[1]))

\* for method in self.methods: skip '__new__' and '__init__', infer the
\* others; the method at position failAt (0: none) fails to infer
RECURSIVE type_infer_loop(_, _, _, _, _)
type_infer_loop(ms, failAt, fe, vt, events) ==
    IF ms = <<>>
    THEN [exc |-> "none", func_envs |-> fe, vtab_type |-> vt,
          events |-> events]
    ELSE IF Head(ms)[1] \in {"__new__", "__init__"}
    THEN type_infer_loop(Tail(ms), failAt, fe, vt, events)
    ELSE LET r == type_infer_method(Head(ms), failAt # 1, fe, vt)
         IN IF r.exc # "none"
            THEN [exc |-> r.exc, func_envs |-> r.func_envs,
                  vtab_type |-> r.vtab_type,
                  events |-> Append(events, "raise")]
            ELSE type_infer_loop(Tail(ms),
                     IF failAt = 0 THEN 0 ELSE failAt - 1,
                     r.func_envs, r.vtab_type,
                     Append(events, "infer:" \o Head(ms)[1]))

type_infer_methods(c) ==
    /\ pc[c] = "type_infer_methods"
    /\ \E failAt \in 0..Len(methods[c].items) :
          LET r == type_infer_loop(methods[c].items, failAt, func_envs[c],
                                   vtab_type[c], <<>>)
          IN /\ func_envs' = [func_envs EXCEPT ![c] = r.func_envs]
             /\ vtab_type' = [vtab_type EXCEPT ![c] = r.vtab_type]
             /\ trace' = [trace EXCEPT ![c] = @ \o r.events]
             /\ IF r.exc # "none" THEN Finish(c, r.exc)
                ELSE Goto(c, "build_vtab_type")
    /\ UNCHANGED macro_state
    /\ UNCHANGED <<inputs, parents, class_dict, attribute_table, symtab,
                   methods, method_types, op, arg, vtab, lifecycle, produced>>

\* vtabbuilder.build_vtab_type(ext_type): the vtab type is made of the
\* signatures add_method has registered; there must be a table to build on
vtabbuilder_build_vtab_type(vt) ==
    IF vt.kind = "None" THEN [exc |-> "AttributeError", table |-> vt]
    ELSE [exc |-> "none", table |-> vt]

\* the last stage of infer() as it would be if infer() returned without
\* the two assignments that discard the lists
build_vtab_type_keep_lists(c) ==
    /\ pc[c] = "build_vtab_type"
    /\ LET r == vtabbuilder_build_vtab_type(vtab_type[c])
       IN /\ vtab_type' = [vtab_type EXCEPT ![c] = r.table]
          /\ Finish(c, r.exc)
          /\ IF r.exc # "none"
             THEN /\ trace' = [trace EXCEPT ![c] = Append(@, "raise")]
                  /\ UNCHANGED lifecycle
             ELSE /\ trace' = [trace EXCEPT ![c] =
                                  Append(@, "build_vtab_type")]
                  /\ lifecycle' = [lifecycle EXCEPT ![c] = 1]
    /\ UNCHANGED macro_state
    /\ UNCHANGED <<inputs, parents, class_dict, attribute_table, symtab,
                   methods, method_types, func_envs, op, arg, vtab, produced>>

\* the last stage of infer() and its return: self.methods = None,
\* self.method_types = None
build_vtab_type(c) ==
    /\ pc[c] = "build_vtab_type"
    /\ LET r == vtabbuilder_build_vtab_type(vtab_type[c])
       IN /\ vtab_type' = [vtab_type EXCEPT ![c] = r.table]
          /\ Finish(c, r.exc)
          /\ IF r.exc # "none"
             THEN /\ trace' = [trace EXCEPT ![c] = Append(@, "raise")]
                  /\ UNCHANGED <<methods, method_types, lifecycle>>
             ELSE /\ trace' = [trace EXCEPT ![c] =
                                  Append(@, "build_vtab_type")]
                  /\ methods' = [methods EXCEPT ![c] = NoneList]
                  /\ method_types' = [method_types EXCEPT ![c] = NoneList]
                  /\ lifecycle' = [lifecycle EXCEPT ![c] = 1]
    /\ UNCHANGED macro_state
    /\ UNCHANGED <<inputs, parents, class_dict, attribute_table, symtab,
                   func_envs, op, arg, vtab, produced>>

\* for validator in self.exttype_validators: validator.validate(ext_type)
\* A validator rejects by raising, which ends the loop; iterating None
\* raises TypeError.
RECURSIVE validator_loop(_, _, _)
validator_loop(validators, i, events) ==
    IF i > Len(validators) THEN [exc |-> "none", events |-> events]
    ELSE IF validators[i][2] = "reject"
    THEN [exc |-> "ValidationError",
          events |-> events \o <<"validator:" \o ToString(i), "raise">>]
    ELSE validator_loop(validators, i + 1,
             Append(events, "validator:" \o ToString(i)))

validate_body(exttype_validators) ==
    IF exttype_validators = <<<<"None", "None">>>>
    THEN [exc |-> "TypeError", events |-> <<"raise">>]
    ELSE validator_loop(exttype_validators, 1, <<>>)

validate(c, exttype_validators) ==
    /\ c \in active
    /\ pc[c] = "idle"
    /\ op' = [op EXCEPT ![c] = "validate"]
    /\ arg' = [arg EXCEPT ![c] = exttype_validators]
    /\ LET r == validate_body(exttype_validators)
       IN /\ trace' = [trace EXCEPT ![c] = r.events]
          /\ Finish(c, r.exc)
          /\ lifecycle' = [lifecycle EXCEPT ![c] =
                              IF r.exc = "none" /\ @ = 1 THEN 2 ELSE @]
    /\ UNCHANGED macro_state
    /\ UNCHANGED <<inputs, parents, class_dict, attribute_table, vtab_type,
                   symtab, methods, method_types, func_envs, vtab, produced>>

\* AttributeBuilder.finalize and VTabBuilder.finalize: a docstring, no
\* statement; the table is left as it is
\* AttributeBuilder.finalize as it would be if fixing the order laid the
\* attributes out last-added first
AttributeBuilder_finalize_reversed(at) ==
    [at EXCEPT !.dict = [i \in DOMAIN @ |-> @[Len(@) + 1 - i]]]

AttributeBuilder_finalize(at) == at

VTabBuilder_finalize(vt) == vt

finalize_tables(c) ==
    /\ c \in active
    /\ pc[c] = "idle"
    /\ op' = [op EXCEPT ![c] = "finalize_tables"]
    /\ arg' = [arg EXCEPT ![c] = <<>>]
    /\ attribute_table' = [attribute_table EXCEPT
                              ![c] = AttributeBuilder_finalize(@)]
    /\ vtab_type' = [vtab_type EXCEPT ![c] = VTabBuilder_finalize(@)]
    /\ trace' = [trace EXCEPT ![c] = <<"finalize", "finalize">>]
    /\ Finish(c, "none")
    /\ lifecycle' = [lifecycle EXCEPT ![c] = IF @ = 2 THEN 3 ELSE @]
    /\ UNCHANGED macro_state
    /\ UNCHANGED <<inputs, parents, class_dict, symtab, methods,
                   method_types, func_envs, vtab, produced>>

\* compile_methods: a docstring, no statement; the caller gets None
NoneResult == [kind |-> "None", method_pointers |-> <<>>]

\* compile_methods as it would be if it returned a pointer per FuncEnv
compile_methods_pointers(fe) ==
    [kind |-> "tuple",
     method_pointers |-> [i \in DOMAIN fe |-> <<fe[i][1], "ptr">>]]

compile_methods(fe) == NoneResult

\* VTabBuilder.build_vtab: a docstring, no statement; the caller gets None
build_vtab(vt, method_pointers) == NoneTable

\* compile(): "method_pointers, lmethods = self.compile_methods()" unpacks
\* the result, which raises TypeError for None; otherwise the vtab is built
\* and build_extension_type calls create_new_extension_type
compile_body(fe, vt) ==
    LET r == compile_methods(fe)
    IN IF r.kind # "tuple"
       THEN [exc |-> "TypeError", events |-> <<"raise">>,
             vtab |-> NoneTable, built |-> FALSE, produced |-> FALSE]
       ELSE [exc |-> "none",
             events |-> <<"compile_methods", "build_vtab",
                          "create_new_extension_type">>,
             vtab |-> build_vtab(vt, r.method_pointers),
             built |-> TRUE, produced |-> TRUE]

compile(c) ==
    /\ c \in active
    /\ pc[c] = "idle"
    /\ op' = [op EXCEPT ![c] = "compile"]
    /\ arg' = [arg EXCEPT ![c] = <<>>]
    /\ class_dict' = [class_dict EXCEPT
           ![c] = ("__numba_py_class" :> <<"pyclass", "-">>) @@ @]
    /\ py_class' = [py_class EXCEPT ![c].members =
                        vars_after_store(@, class_dict'[c])]
    /\ LET r == compile_body(func_envs[c], vtab_type[c])
       IN /\ trace' = [trace EXCEPT ![c] = r.events]
          /\ vtab' = [vtab EXCEPT ![c] = IF r.built THEN r.vtab ELSE @]
          /\ produced' = [produced EXCEPT ![c] = @ \/ r.produced]
          /\ Finish(c, r.exc)
    /\ UNCHANGED macro_state
    /\ UNCHANGED <<active, inheriter, parents, attribute_table, vtab_type,
                   symtab, methods, method_types, func_envs, lifecycle>>

\* ------------------------------------------- calls made on the collaborators

\* inheriter.inherit(ext_type), called with the extension type alone
Inherit(c) ==
    /\ c \in active
    /\ pc[c] = "idle"
    /\ op' = [op EXCEPT ![c] = "inherit"]
    /\ arg' = [arg EXCEPT ![c] = <<>>]
    /\ LET r == inherit(py_class[c].bases, attribute_table[c], vtab_type[c],
                        base_attribute_table, base_vtab_type)
       IN /\ attribute_table' = [attribute_table EXCEPT
                                    ![c] = r.attribute_table]
          /\ vtab_type' = [vtab_type EXCEPT ![c] = r.vtab_type]
          /\ base_attribute_table' = r.bat
          /\ base_vtab_type' = r.bvt
          /\ trace' = [trace EXCEPT ![c] =
                 IF r.exc = "none" THEN <<"inherit">> ELSE <<"raise">>]
          /\ Finish(c, r.exc)
    /\ lifecycle' = [lifecycle EXCEPT ![c] = 0]
    /\ UNCHANGED macro_state
    /\ UNCHANGED <<inputs, class_dict, symtab, methods, method_types,
                   func_envs, vtab, produced>>

\* a method and an attribute that no class and no parent declares
NewMethodNames == {"q"}

NewAttributeNames == {"v"}

\* ext_type.add_method(name, signature) on the compiler's extension type
AddMethod(c, name) ==
    /\ c \in active
    /\ pc[c] = "idle"
    /\ op' = [op EXCEPT ![c] = "add_method"]
    /\ arg' = [arg EXCEPT ![c] = <<<<name, "s_new">>>>]
    /\ LET r == add_method(vtab_type[c], name, "s_new")
       IN /\ vtab_type' = [vtab_type EXCEPT ![c] = r.table]
          /\ trace' = [trace EXCEPT ![c] =
                 IF r.exc = "none" THEN <<"add_method">> ELSE <<"raise">>]
          /\ Finish(c, r.exc)
    /\ UNCHANGED macro_state
    /\ UNCHANGED <<inputs, parents, class_dict, attribute_table, symtab,
                   methods, method_types, func_envs, vtab, lifecycle,
                   produced>>

\* an attribute added to the compiler's attribute table
AddAttribute(c, name) ==
    /\ c \in active
    /\ pc[c] = "idle"
    /\ op' = [op EXCEPT ![c] = "add_attribute"]
    /\ arg' = [arg EXCEPT ![c] = <<<<name, "t_new">>>>]
    /\ LET r == add_attribute(attribute_table[c], name, "t_new")
       IN /\ attribute_table' = [attribute_table EXCEPT ![c] = r.table]
          /\ trace' = [trace EXCEPT ![c] =
                 IF r.exc = "none" THEN <<"add_attribute">> ELSE <<"raise">>]
          /\ Finish(c, r.exc)
    /\ UNCHANGED macro_state
    /\ UNCHANGED <<inputs, parents, class_dict, vtab_type, symtab, methods,
                   method_types, func_envs, vtab, lifecycle, produced>>

\* the pointer dicts handed to build_vtab: a pointer for every slot of the
\* vtab type, or for every slot but one
PointerDicts(vt) ==
    LET all == [i \in DOMAIN vt.dict |-> <<vt.dict[i][1], "ptr">>]
    IN {all} \cup
       {SelectSeq(all, LAMBDA e : e[1] # n) : n \in KeysOf(vt.dict)}

\* vtabbuilder.build_vtab(ext_type, method_pointers)
BuildVtab(c, method_pointers) ==
    /\ c \in active
    /\ pc[c] = "idle"
    /\ op' = [op EXCEPT ![c] = "build_vtab"]
    /\ arg' = [arg EXCEPT ![c] = method_pointers]
    /\ vtab' = [vtab EXCEPT ![c] = build_vtab(vtab_type[c], method_pointers)]
    /\ trace' = [trace EXCEPT ![c] = <<"build_vtab">>]
    /\ Finish(c, "none")
    /\ UNCHANGED macro_state
    /\ UNCHANGED <<inputs, parents, class_dict, attribute_table, vtab_type,
                   symtab, methods, method_types, func_envs, lifecycle,
                   produced>>

CallBuildVtab(c) == \E p \in PointerDicts(vtab_type[c]) : BuildVtab(c, p)

\* AttributeBuilder.create_descr: a docstring, no statement; the caller
\* gets None
create_descr(attr_name) == <<"None", "None">>

\* for attr_name, attr_type in ext_type.symtab.iteritems():
\*     class_dict[attr_name] = self.create_descr(attr_name)
descriptor_loop(st, cd) ==
    [n \in DOMAIN cd \cup KeysOf(st) |->
        IF n \in KeysOf(st) THEN create_descr(n) ELSE cd[n]]

\* attrbuilder.build_descriptors(env, py_class, ext_type, class_dict)
build_descriptors(c) ==
    /\ c \in active
    /\ pc[c] = "idle"
    /\ op' = [op EXCEPT ![c] = "build_descriptors"]
    /\ arg' = [arg EXCEPT ![c] = <<>>]
    /\ class_dict' = [class_dict EXCEPT ![c] = descriptor_loop(symtab[c], @)]
    /\ py_class' = [py_class EXCEPT ![c].members =
                        vars_after_store(@, class_dict'[c])]
    /\ trace' = [trace EXCEPT ![c] = <<"build_descriptors">>]
    /\ Finish(c, "none")
    /\ UNCHANGED macro_state
    /\ UNCHANGED <<active, inheriter, parents, attribute_table, vtab_type,
                   symtab, methods, method_types, func_envs, vtab, lifecycle,
                   produced>>

\* ------------------------------------------------------------------- Next

Next ==
    \/ \E c \in Compilers : CallInfer(c)
    \/ \E c \in Compilers : infer_attributes(c)
    \/ \E c \in Compilers : process_method_signatures(c)
    \/ \E c \in Compilers : type_infer_init_method(c)
    \/ \E c \in Compilers : build_attributes(c)
    \/ \E c \in Compilers : type_infer_methods(c)
    \/ \E c \in Compilers : build_vtab_type(c)
    \/ \E c \in Compilers : \E v \in ValidatorLists : validate(c, v)
    \/ \E c \in Compilers : finalize_tables(c)
    \/ \E c \in Compilers : compile(c)
    \/ \E c \in Compilers : Inherit(c)
    \/ \E c \in Compilers : \E name \in NewMethodNames : AddMethod(c, name)
    \/ \E c \in Compilers :
          \E name \in NewAttributeNames : AddAttribute(c, name)
    \/ \E c \in Compilers : CallBuildVtab(c)

Spec == Init /\ [][Next]_vars

\* Two sibling subclasses of the same parents are compiled side by side,
\* their stages interleaved.
SiblingClasses ==
    {cl \in Classes : cl.bases \in {<<"A">>, <<"B", "A">>}
                      /\ DOMAIN cl.members \in {{"m"}, {"k", "w"}}}

InitSiblings ==
    /\ InitCompilers({1, 2}, SiblingClasses,
                     {"AttributesInheriter", "subclass"})
    /\ NoMacroRun
    /\ py_class[1].bases = py_class[2].bases

NextSiblings ==
    \/ \E c \in Compilers : CallInfer(c)
    \/ \E c \in Compilers : infer_attributes(c)
    \/ \E c \in Compilers : process_method_signatures(c)
    \/ \E c \in Compilers : type_infer_init_method(c)
    \/ \E c \in Compilers : build_attributes(c)
    \/ \E c \in Compilers : type_infer_methods(c)
    \/ \E c \in Compilers : build_vtab_type(c)
    \/ \E c \in Compilers : validate(c, <<<<"validator", "pass">>>>)
    \/ \E c \in Compilers : finalize_tables(c)
    \/ \E c \in Compilers : compile(c)
    \/ \E c \in Compilers : Inherit(c)

SpecSiblings == InitSiblings /\ [][NextSiblings]_vars

\* One class is taken through infer(), validate() and finalize_tables(),
\* and the descriptors are built into its class dict.
NextDescriptors ==
    \/ \E c \in Compilers : CallInfer(c)
    \/ \E c \in Compilers : infer_attributes(c)
    \/ \E c \in Compilers : process_method_signatures(c)
    \/ \E c \in Compilers : type_infer_init_method(c)
    \/ \E c \in Compilers : build_attributes(c)
    \/ \E c \in Compilers : type_infer_methods(c)
    \/ \E c \in Compilers : build_vtab_type(c)
    \/ \E c \in Compilers : validate(c, <<<<"validator", "pass">>>>)
    \/ \E c \in Compilers : finalize_tables(c)
    \/ \E c \in Compilers : build_descriptors(c)

SpecDescriptors == Init /\ [][NextDescriptors]_vars

\* ------------------------------------------------------------ numba/macro.py
\* The IR of a block: a body of instructions.  An instruction is an
\* ir.Assign (target, value, loc) or something else (here ir.Return); a
\* value is an ir.Global, ir.Const, ir.FreeVar, ir.Var or an ir.Expr with op
\* 'getattr' or 'call'.  ref is the variable the value names (rhs.name,
\* rhs.value.name, rhs.func.name), val the Python object it carries.

Value(o, ref, attr, val, args, kws, loc) ==
    [op |-> o, ref |-> ref, attr |-> attr, val |-> val, args |-> args,
     kws |-> kws, loc |-> loc]

Global(val) == Value("global", "-", "-", val, <<>>, <<>>, 0)

Const(val) == Value("const", "-", "-", val, <<>>, <<>>, 0)

FreeVar(val) == Value("freevar", "-", "-", val, <<>>, <<>>, 0)

Var(name) == Value("var", name, "-", "-", <<>>, <<>>, 0)

Expr_getattr(name, attr) == Value("getattr", name, attr, "-", <<>>, <<>>, 0)

\* the call of a variable, as the front end emits it
Expr_call_var(name, args, kws) == Value("call", name, "-", "-", args, kws, 0)

\* ir.Expr.call(func=..., args=..., kws=..., loc=...) on an object
Expr_call(func, args, kws, loc) ==
    Value("call", "-", "-", func, args, kws, loc)

NoValue == Value("none", "-", "-", "-", <<>>, <<>>, 0)

Assign(target, value) ==
    [kind |-> "Assign", target |-> target, value |-> value, loc |-> 0]

Return == [kind |-> "Return", target |-> "-", value |-> NoValue, loc |-> 0]

\* the Macro objects of the run: name, func and callable of each
Macros == {"mac_ok", "mac_raise", "mac_none", "mac_attr"}

isinstance_Macro(v) == v \in Macros

macro_callable(m) == m # "mac_attr"

macro_name(m) == "name_" \o m

\* macro.func(*args, **kws): mac_ok returns a function, mac_none returns
\* None, mac_raise raises
macro_func(m, args, kws) ==
    IF m = "mac_raise" THEN [exc |-> "ValueError", result |-> "None"]
    ELSE IF m = "mac_none" THEN [exc |-> "none", result |-> "None"]
    ELSE [exc |-> "none", result |-> "fn_" \o m]

\* ir.Intrinsic(macro.name, macro.func, args=())
Intrinsic(name, func) == "Intrinsic(" \o name \o ", func_" \o func \o ")"

\* getattr(base, attr): the module has the non-callable macro as 'prop'
py_getattr(base, attr) ==
    IF base = "module" /\ attr = "prop"
    THEN [exc |-> "none", value |-> "mac_attr"]
    ELSE [exc |-> "AttributeError", value |-> "None"]

\* constants.get(name)
constants_get(pool, name) ==
    IF HasKey(pool, name) THEN GetItem(pool, name) ELSE "None"

\* the instructions the blocks are made of
Instructions ==
    {Assign("k", Global("module")),
     Assign("f", Global("mac_ok")),
     Assign("f", Expr_getattr("k", "prop")),
     Assign("f", Global("mac_raise")),
     Assign("f", FreeVar("mac_none")),
     Assign("k", Const("1")),
     Assign("g", Var("f")),
     Assign("r", Expr_call_var("f", <<"k">>, <<>>)),
     Assign("r", Expr_call_var("g", <<>>, <<<<"n", "k">>>>)),
     Return}

\* instruction inst at source line loc
At(inst, loc) == [inst EXCEPT !.loc = loc, !.value.loc = loc]

\* the function body p, its instructions at lines 1, 2, ..., cut into two
\* blocks after instruction cut
Blocks(p, cut) ==
    [b \in 1..2 |->
        [i \in 1..(IF b = 1 THEN cut ELSE Len(p) - cut) |->
            At(p[IF b = 1 THEN i ELSE cut + i],
               IF b = 1 THEN i ELSE cut + i)]]

\* one step of the loop of module_getattr_folding
fold_instruction(pool, inst) ==
    LET rhs == inst.value
    IN IF inst.kind # "Assign" THEN [exc |-> "none", constants |-> pool]
       ELSE IF rhs.op = "global"
       THEN [exc |-> "none", constants |-> SetItem(pool, inst.target, rhs.val)]
       ELSE IF rhs.op = "getattr"
       THEN IF HasKey(pool, rhs.ref)
            THEN LET a == py_getattr(GetItem(pool, rhs.ref), rhs.attr)
                 IN IF a.exc # "none"
                    THEN [exc |-> a.exc, constants |-> pool]
                    ELSE [exc |-> "none",
                          constants |-> SetItem(pool, inst.target, a.value)]
            ELSE [exc |-> "none", constants |-> pool]
       ELSE IF rhs.op = "const"
       THEN [exc |-> "none", constants |-> SetItem(pool, inst.target, rhs.val)]
       ELSE IF rhs.op = "var" /\ HasKey(pool, rhs.ref)
       THEN [exc |-> "none",
             constants |-> SetItem(pool, inst.target, GetItem(pool, rhs.ref))]
       ELSE IF rhs.op = "freevar"
       THEN [exc |-> "none", constants |-> SetItem(pool, inst.target, rhs.val)]
       ELSE [exc |-> "none", constants |-> pool]

\* module_getattr_folding as it would be if it collected the constants of
\* the block in a dict of its own
RECURSIVE module_getattr_folding_fresh(_, _)
module_getattr_folding_fresh(pool, body) ==
    IF body = <<>> THEN [exc |-> "none", constants |-> <<>>, at |-> 0]
    ELSE LET rest == module_getattr_folding_fresh(pool,
                         SubSeq(body, 1, Len(body) - 1))
             r == fold_instruction(rest.constants, body[Len(body)])
         IN IF rest.exc # "none" THEN rest
            ELSE [exc |-> r.exc, constants |-> r.constants,
                  at |-> IF r.exc # "none" THEN body[Len(body)].loc ELSE 0]

\* module_getattr_folding(constants, block): for inst in block.body
RECURSIVE module_getattr_folding(_, _)
module_getattr_folding(pool, body) ==
    IF body = <<>> THEN [exc |-> "none", constants |-> pool, at |-> 0]
    ELSE LET r == fold_instruction(pool, Head(body))
         IN IF r.exc # "none"
            THEN [exc |-> r.exc, constants |-> r.constants,
                  at |-> Head(body).loc]
            ELSE module_getattr_folding(r.constants, Tail(body))

\* the call branch without the try: what the macro function raises escapes
expand_call_no_try(pool, inst) ==
    LET rhs == inst.value
        macro == constants_get(pool, rhs.ref)
        r == macro_func(macro, rhs.args, rhs.kws)
    IN IF ~isinstance_Macro(macro)
       THEN [exc |-> "none", line |-> 0, inst |-> inst]
       ELSE IF ~macro_callable(macro)
       THEN [exc |-> "AssertionError", line |-> 0, inst |-> inst]
       ELSE IF \E i \in DOMAIN rhs.args : ~HasKey(pool, rhs.args[i])
       THEN [exc |-> "KeyError", line |-> 0, inst |-> inst]
       ELSE IF \E i \in DOMAIN rhs.kws : ~HasKey(pool, rhs.kws[i][2])
       THEN [exc |-> "KeyError", line |-> 0, inst |-> inst]
       ELSE IF r.exc # "none"
       THEN [exc |-> r.exc, line |-> 0, inst |-> inst]
       ELSE IF r.result # "None"
       THEN [exc |-> "none", line |-> 0,
             inst |-> [inst EXCEPT !.value =
                          Expr_call(r.result, rhs.args, rhs.kws, rhs.loc)]]
       ELSE [exc |-> "none", line |-> 0, inst |-> inst]

\* the call branch rewriting to a call without the arguments
expand_call_no_args(pool, inst) ==
    LET rhs == inst.value
        macro == constants_get(pool, rhs.ref)
        r == macro_func(macro, rhs.args, rhs.kws)
    IN IF ~isinstance_Macro(macro)
       THEN [exc |-> "none", line |-> 0, inst |-> inst]
       ELSE IF ~macro_callable(macro)
       THEN [exc |-> "AssertionError", line |-> 0, inst |-> inst]
       ELSE IF \E i \in DOMAIN rhs.args : ~HasKey(pool, rhs.args[i])
       THEN [exc |-> "KeyError", line |-> 0, inst |-> inst]
       ELSE IF \E i \in DOMAIN rhs.kws : ~HasKey(pool, rhs.kws[i][2])
       THEN [exc |-> "KeyError", line |-> 0, inst |-> inst]
       ELSE IF r.exc # "none"
       THEN [exc |-> "MacroError", line |-> inst.loc, inst |-> inst]
       ELSE IF r.result # "None"
       THEN [exc |-> "none", line |-> 0,
             inst |-> [inst EXCEPT !.value =
                          Expr_call(r.result, <<>>, <<>>, rhs.loc)]]
       ELSE [exc |-> "none", line |-> 0, inst |-> inst]

\* the branch "rhs.op == 'call'" of expand_macros_in_block: the callee is
\* looked up in the pool; for a Macro the assert, the lookups of the
\* argument and keyword values, the call of macro.func inside the try
\* (whose failure is raised as MacroError, headed by inst.loc), and the
\* rewrite when the result is true
expand_call(pool, inst) ==
    LET rhs == inst.value
        macro == constants_get(pool, rhs.ref)
        r == macro_func(macro, rhs.args, rhs.kws)
    IN IF ~isinstance_Macro(macro)
       THEN [exc |-> "none", line |-> 0, inst |-> inst]
       ELSE IF ~macro_callable(macro)
       THEN [exc |-> "AssertionError", line |-> 0, inst |-> inst]
       ELSE IF \E i \in DOMAIN rhs.args : ~HasKey(pool, rhs.args[i])
       THEN [exc |-> "KeyError", line |-> 0, inst |-> inst]
       ELSE IF \E i \in DOMAIN rhs.kws : ~HasKey(pool, rhs.kws[i][2])
       THEN [exc |-> "KeyError", line |-> 0, inst |-> inst]
       ELSE IF r.exc # "none"
       THEN [exc |-> "MacroError", line |-> inst.loc, inst |-> inst]
       ELSE IF r.result # "None"
       THEN [exc |-> "none", line |-> 0,
             inst |-> [inst EXCEPT !.value =
                          Expr_call(r.result, rhs.args, rhs.kws, rhs.loc)]]
       ELSE [exc |-> "none", line |-> 0, inst |-> inst]

\* the branch "rhs.op == 'getattr'": a non-callable Macro read from a
\* known constant becomes the call of an Intrinsic
expand_getattr(pool, inst) ==
    LET rhs == inst.value
        base == constants_get(pool, rhs.ref)
        a == py_getattr(base, rhs.attr)
    IN IF base = "None" THEN [exc |-> "none", line |-> 0, inst |-> inst]
       ELSE IF a.exc # "none" THEN [exc |-> a.exc, line |-> 0, inst |-> inst]
       ELSE IF isinstance_Macro(a.value) /\ ~macro_callable(a.value)
       THEN [exc |-> "none", line |-> 0,
             inst |-> [inst EXCEPT !.value =
                          Expr_call(Intrinsic(macro_name(a.value), a.value),
                                    <<>>, <<>>, rhs.loc)]]
       ELSE [exc |-> "none", line |-> 0, inst |-> inst]

expand_instruction(pool, inst) ==
    IF inst.kind = "Assign" /\ inst.value.op = "call" /\ inst.value.ref # "-"
    THEN expand_call(pool, inst)
    ELSE IF inst.kind = "Assign" /\ inst.value.op = "getattr"
    THEN expand_getattr(pool, inst)
    ELSE [exc |-> "none", line |-> 0, inst |-> inst]

\* expand_macros_in_block(constants, block): for inst in block.body; the
\* instructions before position i are done
RECURSIVE expand_macros_in_block(_, _, _)
expand_macros_in_block(pool, body, i) ==
    IF i > Len(body) THEN [exc |-> "none", line |-> 0, at |-> 0, body |-> body]
    ELSE LET r == expand_instruction(pool, body[i])
         IN IF r.exc # "none"
            THEN [exc |-> r.exc, line |-> r.line, at |-> body[i].loc,
                  body |-> body]
            ELSE expand_macros_in_block(pool, [body EXCEPT ![i] = r.inst],
                                        i + 1)

compiler_state ==
    <<active, py_class, inheriter, base_attribute_table, base_vtab_type,
      class_dict, attribute_table, vtab_type, symtab, methods, method_types,
      func_envs, pc, op, err, trace, arg, vtab, lifecycle, produced>>

\* expand_macros(blocks) is called, on a function body of up to MaxInstrs
\* instructions in two blocks: constants = {}
InitMacro ==
    /\ InitCompilers({}, Classes, {"AttributesInheriter"})
    /\ \E n \in 0..MaxInstrs : \E p \in [1..n -> Instructions] :
          \E cut \in 0..n : blocks_in = Blocks(p, cut)
    /\ blocks = blocks_in
    /\ constants = <<>>
    /\ mpc = [blk |-> 1, pass |-> "fold"]
    /\ exception = NoException

MacroErrorHead == "Macro expansion failed at"

\* the exception leaves expand_macros
Raise(type, line, pass, at) ==
    /\ exception' = [type |-> type,
                     head |-> IF type = "MacroError" THEN MacroErrorHead
                              ELSE "",
                     line |-> line, pass |-> pass, at |-> at]
    /\ mpc' = [mpc EXCEPT !.pass = "raised"]

\* module_getattr_folding(constants, blk) in the loop of expand_macros
Fold ==
    /\ mpc.pass = "fold"
    /\ LET r == module_getattr_folding(constants, blocks[mpc.blk])
       IN /\ constants' = r.constants
          /\ IF r.exc # "none" THEN Raise(r.exc, 0, "fold", r.at)
             ELSE /\ mpc' = [mpc EXCEPT !.pass = "expand"]
                  /\ UNCHANGED exception
    /\ UNCHANGED <<blocks, blocks_in, compiler_state>>

\* expand_macros_in_block(constants, blk) in the loop of expand_macros,
\* and the step to the next block or the return
Expand ==
    /\ mpc.pass = "expand"
    /\ LET r == expand_macros_in_block(constants, blocks[mpc.blk], 1)
       IN /\ blocks' = [blocks EXCEPT ![mpc.blk] = r.body]
          /\ IF r.exc # "none" THEN Raise(r.exc, r.line, "expand", r.at)
             ELSE /\ mpc' = IF mpc.blk < Len(blocks)
                            THEN [blk |-> mpc.blk + 1, pass |-> "fold"]
                            ELSE [mpc EXCEPT !.pass = "done"]
                  /\ UNCHANGED exception
    /\ UNCHANGED <<blocks_in, constants, compiler_state>>

NextMacro ==
    \/ Fold
    \/ Expand

SpecMacro == InitMacro /\ [][NextMacro]_vars

\* ------------------------------------------------------------ properties

Range(t) == {t[i] : i \in DOMAIN t}

\* the methods the class declares besides __init__, as the processor lists them
OtherMethods(c) ==
    SelectSeq(MethodOrder,
        LAMBDA n : n # "__init__" /\ n \in DOMAIN py_class[c].members)

\* the stages of infer() in the order of its contract, each run to its end
InferStages(c) ==
    <<"inherit", "class_attribute_types", "signatures">>
    \o (IF "__init__" \in DOMAIN py_class[c].members
        THEN <<"infer:__init__">> ELSE <<>>)
    \o <<"build_attributes">>
    \o [i \in DOMAIN OtherMethods(c) |-> "infer:" \o OtherMethods(c)[i]]
    \o <<"build_vtab_type">>

\* C1: infer() runs inheritance merge, class attribute types, signature
\* processing, inference of __init__ (if the class has one), attribute
\* layout, inference of the other methods and vtab-type construction in
\* this order and reaches the last one: unless a collaborator rejects the
\* class (SignatureError, TypeInferenceError), a finished infer() on a
\* compiler whose inheriter takes the call has gone through all of them.
C1_InferStagesInOrder ==
    \A c \in active :
        (op[c] = "infer" /\ pc[c] = "idle" /\ inheriter[c] = "subclass"
         /\ err[c] \notin {"SignatureError", "TypeInferenceError"})
        => trace[c] = InferStages(c)

\* the names the parents in bases declare in their tables
InheritedNames(bases, tables) ==
    UNION {KeysOf(tables[bases[i]].dict) : i \in DOMAIN bases}

\* the type of name in the last of bases that declares it
RECURSIVE LastType(_, _, _)
LastType(bases, tables, name) ==
    IF bases = <<>> THEN "undeclared"
    ELSE IF HasKey(tables[bases[Len(bases)]].dict, name)
    THEN GetItem(tables[bases[Len(bases)]].dict, name)
    ELSE LastType(SubSeq(bases, 1, Len(bases) - 1), tables, name)

Holds(table, name, type) ==
    /\ table.kind = "table"
    /\ HasKey(table.dict, name)
    /\ GetItem(table.dict, name) = type

\* C2: last base wins: after AttributesInheriter.inherit(ext_type) the
\* attribute table and the vtab type of the derived class map every
\* inherited name to the type given by the last base that declares it.
C2_LastBaseWins ==
    \A c \in active :
        (op[c] = "inherit" /\ pc[c] = "idle")
        => /\ \A n \in InheritedNames(py_class[c].bases, base_attribute_table) :
                Holds(attribute_table[c], n,
                      LastType(py_class[c].bases, base_attribute_table, n))
           /\ \A n \in InheritedNames(py_class[c].bases, base_vtab_type) :
                Holds(vtab_type[c], n,
                      LastType(py_class[c].bases, base_vtab_type, n))

\* C3: attribute inheritance completeness: every attribute a base declares
\* and the class does not declare itself is in ext_type.attribute_table
\* with a base's type, once inherit() has installed the table and still
\* after infer(), validate() and finalize_tables().
C3_AttributeInheritanceComplete ==
    \A c \in active :
        ((op[c] = "inherit" /\ pc[c] = "idle") \/ lifecycle[c] = 3)
        => \A i \in DOMAIN py_class[c].bases :
             LET base == base_attribute_table[py_class[c].bases[i]]
             IN \A n \in KeysOf(base.dict) \ DOMAIN py_class[c].members :
                  /\ attribute_table[c].kind = "table"
                  /\ HasKey(attribute_table[c].dict, n)
                  /\ \E j \in DOMAIN py_class[c].bases :
                        Holds(base_attribute_table[py_class[c].bases[j]], n,
                              GetItem(attribute_table[c].dict, n))

\* C4: finalize immutability: once infer(), validate() and
\* finalize_tables() have run on an extension type, every attempt to add an
\* attribute or a method fails with LayoutError and leaves the attribute
\* table and the vtab type as they were.
C4_FinalizeImmutable ==
    [][\A c \in active :
          (lifecycle[c] = 3 /\ op'[c] \in {"add_method", "add_attribute"})
          => /\ err'[c] = "LayoutError"
             /\ attribute_table'[c] = attribute_table[c]
             /\ vtab_type'[c] = vtab_type[c]]_vars

\* C5: override slot stability: a method the class overrides sits, in the
\* vtab type of a class with one base, at the slot index it has in the
\* base's vtab type: as soon as inherit() has run, and in the finalized
\* vtab type.
C5_OverrideSlotStable ==
    \A c \in active :
        (Len(py_class[c].bases) = 1 /\ pc[c] = "idle"
         /\ (op[c] = "inherit" \/ lifecycle[c] = 3))
        => LET base == base_vtab_type[py_class[c].bases[1]].dict
           IN \A n \in KeysOf(base) \cap DOMAIN py_class[c].members :
                 /\ vtab_type[c].kind = "table"
                 /\ HasKey(vtab_type[c].dict, n)
                 /\ IndexOf(vtab_type[c].dict, n) = IndexOf(base, n)

\* C6: vtab completeness: build_vtab on a finalized extension type fails
\* when a slot of the vtab type has no pointer, and with a pointer for every
\* slot returns a table whose order is the slot order of the vtab type.
C6_VtabComplete ==
    \A c \in active :
        (op[c] = "build_vtab" /\ pc[c] = "idle" /\ lifecycle[c] = 3)
        => IF KeysOf(arg[c]) # KeysOf(vtab_type[c].dict)
           THEN err[c] # "none"
           ELSE /\ err[c] = "none"
                /\ vtab[c].kind = "table"
                /\ KeySeq(vtab[c].dict) = KeySeq(vtab_type[c].dict)

\* C7: abort on error: a stage that raises is the last thing its call does
\* (the call is over, with the exception, and no stage follows the raise),
\* and a call that raised has not invoked create_new_extension_type.
C7_AbortOnError ==
    \A c \in active :
        /\ \A i \in DOMAIN trace[c] :
              trace[c][i] = "raise"
              => (i = Len(trace[c]) /\ pc[c] = "idle" /\ err[c] # "none")
        /\ (pc[c] = "idle" /\ err[c] # "none")
           => /\ "raise" \in Range(trace[c])
              /\ "create_new_extension_type" \notin Range(trace[c])

\* C7 witness: inference of method m failed; method k, which comes after
\* it, was not inferred, the vtab type was not built, no type was produced
C7_Witness ==
    \E c \in active :
        /\ op[c] = "infer" /\ pc[c] = "idle"
        /\ err[c] = "TypeInferenceError"
        /\ {"m", "k"} \subseteq DOMAIN py_class[c].members
        /\ "infer:m" \notin Range(trace[c])
        /\ "infer:k" \notin Range(trace[c])
        /\ "build_attributes" \in Range(trace[c])
        /\ ~produced[c]

\* C8: validate() invokes every validator of the list, also after one has
\* rejected the type, and succeeds exactly when none rejects.
C8_AllValidatorsRun ==
    \A c \in active :
        (op[c] = "validate" /\ pc[c] = "idle"
         /\ arg[c] # <<<<"None", "None">>>>)
        => /\ \A i \in DOMAIN arg[c] :
                ("validator:" \o ToString(i)) \in Range(trace[c])
           /\ (err[c] = "none") <=> (\A i \in DOMAIN arg[c] :
                                        arg[c][i][2] = "pass")

C10_ParentsReadOnly ==
    /\ base_attribute_table = BaseAttributes
    /\ base_vtab_type = BaseMethods

\* C10 witness: one sibling is in the middle of infer() with the parents'
\* attributes merged into its table while inherit() has run for the other
C10_Witness ==
    \E c, d \in active :
        /\ c # d
        /\ pc[c] = "type_infer_methods"
        /\ attribute_table[c].kind = "table"
        /\ attribute_table[c].dict # <<>>
        /\ op[d] = "inherit" /\ pc[d] = "idle"

\* the members of the class that are functions / attribute types
OwnMethods(c) == {n \in DOMAIN py_class[c].members :
                     py_class[c].members[n][1] = "func"}

OwnAttributes(c) == {n \in DOMAIN py_class[c].members :
                        py_class[c].members[n][1] = "type"}

Count(t, e) == Cardinality({i \in DOMAIN t : t[i] = e})

\* C12: infer once, reuse in compile: no method is inferred twice in one
\* infer(); unless a collaborator rejects the class, a finished infer()
\* leaves exactly one FuncEnv per declared method (__init__ included) in
\* func_envs; and compile() on the finalized compiler gets the method
\* pointers from compile_methods without an inference being run.
C12_InferOnceReuse ==
    \A c \in active :
        /\ \A n \in MemberNames : Count(trace[c], "infer:" \o n) <= 1
        /\ (op[c] = "infer" /\ pc[c] = "idle" /\ inheriter[c] = "subclass"
            /\ err[c] \notin {"SignatureError", "TypeInferenceError"})
           => /\ KeysOf(func_envs[c]) = OwnMethods(c)
              /\ Len(func_envs[c]) = Cardinality(OwnMethods(c))
        /\ (op[c] = "compile" /\ pc[c] = "idle" /\ lifecycle[c] = 3)
           => /\ err[c] = "none"
              /\ "compile_methods" \in Range(trace[c])
              /\ \A n \in MemberNames :
                    ("infer:" \o n) \notin Range(trace[c])

\* the inherited attributes in the order of the inherited table, followed
\* by the attributes the class introduces, in symtab insertion order
LayoutOrder(c) ==
    LET inherited == KeySeq(merge_bases(<<>>, py_class[c].bases,
                                        base_attribute_table))
    IN inherited \o SelectSeq(KeySeq(symtab[c]),
                              LAMBDA n : n \notin Range(inherited))

C13_WitnessFirstSeen ==
    \E c \in active :
        /\ op[c] = "finalize_tables" /\ pc[c] = "idle" /\ lifecycle[c] = 3
        /\ py_class[c].bases = <<>>
        /\ KeySeq(symtab[c]) = <<"w", "x">>
        /\ KeySeq(attribute_table[c].dict) = <<"w", "x">>

\* C14: overriding dispatch: after compile() on the finalized compiler of
\* a class that overrides an inherited method, the populated vtab has
\* exactly one slot under the method's name, and it holds the pointer
\* compiled from the FuncEnv of the class's own method.
C14_OverridingDispatch ==
    \A c \in active :
        (op[c] = "compile" /\ pc[c] = "idle" /\ lifecycle[c] = 3)
        => \A n \in OwnMethods(c)
                    \cap InheritedNames(py_class[c].bases, base_vtab_type) :
              /\ vtab[c].kind = "table"
              /\ Cardinality({i \in DOMAIN vtab[c].dict :
                                 vtab[c].dict[i][1] = n}) = 1
              /\ HasKey(func_envs[c], n)
              /\ GetItem(func_envs[c], n) = py_class[c].members[n][2]
              /\ GetItem(vtab[c].dict, n) = "ptr"

\* C15: after build_descriptors on the finalized extension type the class
\* dict holds, under the name of every attribute of the attribute table
\* (inherited or introduced by the class), what create_descr made for it.
C15_DescriptorPerAttribute ==
    \A c \in active :
        (op[c] = "build_descriptors" /\ pc[c] = "idle" /\ lifecycle[c] = 3)
        => \A n \in KeysOf(attribute_table[c].dict) :
              /\ n \in DOMAIN class_dict[c]
              /\ class_dict[c][n] = create_descr(n)

\* C19: the original class is never mutated: no step of infer(),
\* validate(), finalize_tables() or compile() changes the member mapping
\* of py_class; what the compiler installs goes into class_dict.
C19_ClassNotMutated ==
    [][\A c \in active : py_class'[c].members = py_class[c].members]_vars

\* C19 witness: after infer() and compile() the class dict holds the
\* resolved Method of m and '__numba_py_class', the class holds neither
C19_Witness ==
    \E c \in active :
        /\ op[c] = "compile" /\ pc[c] = "idle"
        /\ "m" \in DOMAIN py_class[c].members
        /\ py_class[c].members["m"][1] = "func"
        /\ class_dict[c]["m"][1] = "Method"
        /\ "__numba_py_class" \in DOMAIN class_dict[c]
        /\ "__numba_py_class" \notin DOMAIN py_class[c].members

\* C20: once infer() has returned normally, and in every state until
\* infer() is called again (validate, finalize_tables, compile), methods
\* and method_types are None; the FuncEnvs and the signatures on the
\* extension type are what is left of the methods.
C20_MethodListsDiscarded ==
    \A c \in active :
        lifecycle[c] >= 1
        => /\ methods[c] = NoneList
           /\ method_types[c] = NoneList
           /\ KeysOf(func_envs[c]) \subseteq KeysOf(vtab_type[c].dict)

\* C20 witness: infer(), validate(), finalize_tables() and compile() have
\* run on a class with methods m and k; the lists are None, the FuncEnvs
\* of m and k are kept
C20_Witness ==
    \E c \in active :
        /\ op[c] = "compile" /\ pc[c] = "idle" /\ lifecycle[c] = 3
        /\ methods[c].kind = "None" /\ method_types[c].kind = "None"
        /\ KeysOf(func_envs[c]) = {"m", "k"}

\* the instruction of the given blocks at source line loc
InstAt(loc) ==
    IF loc <= Len(blocks_in[1]) THEN blocks_in[1][loc]
    ELSE blocks_in[2][loc - Len(blocks_in[1])]

IsCall(inst) == inst.kind = "Assign" /\ inst.value.op = "call"

\* a value of the call is not a known constant
UnknownArgument(inst) ==
    \/ \E i \in DOMAIN inst.value.args :
          ~HasKey(constants, inst.value.args[i])
    \/ \E i \in DOMAIN inst.value.kws :
          ~HasKey(constants, inst.value.kws[i][2])

\* the block expand_macros_in_block has last returned from (0: none); the
\* pool is still the one that block was expanded with
LastExpanded ==
    IF mpc.pass = "done" THEN Len(blocks)
    ELSE IF mpc.pass = "fold" THEN mpc.blk - 1
    ELSE 0

\* C16, as claimed: whatever makes the expansion of a call fail, the
\* exception that escapes expand_macros_in_block is a MacroError whose
\* message begins with 'Macro expansion failed at' and the location of the
\* instruction.
C16_OnlyMacroError ==
    (exception.pass = "expand" /\ IsCall(InstAt(exception.at)))
    => /\ exception.type = "MacroError"
       /\ exception.head = MacroErrorHead
       /\ exception.line = exception.at

\* C16, amended: a failure of the macro function is thrown as MacroError,
\* headed by the location of the instruction, and MacroError is thrown for
\* nothing else; a call of a non-callable Macro escapes as AssertionError,
\* an argument or keyword value that is not a known constant as KeyError;
\* and a block whose expansion returned has no call whose macro function
\* fails.
C16_MacroErrorWrapsMacroFunction ==
    /\ exception.type = "MacroError"
       => /\ exception.pass = "expand"
          /\ exception.head = MacroErrorHead
          /\ exception.line = exception.at
          /\ IsCall(InstAt(exception.at))
    /\ (exception.pass = "expand" /\ IsCall(InstAt(exception.at)))
       => LET inst == InstAt(exception.at)
              macro == constants_get(constants, inst.value.ref)
          IN /\ isinstance_Macro(macro)
             /\ exception.type =
                   IF ~macro_callable(macro) THEN "AssertionError"
                   ELSE IF UnknownArgument(inst) THEN "KeyError"
                   ELSE "MacroError"
             /\ exception.type = "MacroError" => macro = "mac_raise"
    /\ LastExpanded >= 1
       => \A i \in DOMAIN blocks_in[LastExpanded] :
             LET inst == blocks_in[LastExpanded][i]
             IN IsCall(inst)
                => constants_get(constants, inst.value.ref) # "mac_raise"

\* C16 witness: the macro function called at line 3 raised, and MacroError
\* headed by line 3 escaped
C16_Witness ==
    /\ exception.type = "MacroError"
    /\ exception.head = MacroErrorHead
    /\ exception.line = 3
    /\ constants_get(constants, InstAt(3).value.ref) = "mac_raise"

\* the assignment calls a callable Macro / reads a non-callable Macro
\* through getattr on a known constant
CallsMacro(inst) ==
    /\ IsCall(inst)
    /\ isinstance_Macro(constants_get(constants, inst.value.ref))
    /\ macro_callable(constants_get(constants, inst.value.ref))

ReadsMacro(inst) ==
    /\ inst.kind = "Assign" /\ inst.value.op = "getattr"
    /\ HasKey(constants, inst.value.ref)
    /\ LET a == py_getattr(GetItem(constants, inst.value.ref),
                           inst.value.attr)
       IN a.exc = "none" /\ isinstance_Macro(a.value)
          /\ ~macro_callable(a.value)

\* the result of the macro function of the Macro the assignment calls
ResultOf(inst) ==
    macro_func(constants_get(constants, inst.value.ref),
               inst.value.args, inst.value.kws).result

\* the call expressions the claim describes
CallOfResult(inst) ==
    Expr_call(ResultOf(inst), inst.value.args, inst.value.kws, inst.value.loc)

CallOfIntrinsic(inst) ==
    LET m == py_getattr(GetItem(constants, inst.value.ref),
                        inst.value.attr).value
    IN Expr_call(Intrinsic(macro_name(m), m), <<>>, <<>>, inst.value.loc)

\* C17, as claimed: after expand_macros_in_block has returned, every
\* assignment of the block that called a callable Macro is the call of the
\* macro function's result with the original args and kws, every one that
\* read a non-callable Macro is the call of the Intrinsic, targets and
\* positions are unchanged, and every other instruction is as it was.
C17_ExpandedToCall ==
    LastExpanded >= 1
    => LET old == blocks_in[LastExpanded]
           new == blocks[LastExpanded]
       IN /\ Len(new) = Len(old)
          /\ \A i \in DOMAIN old :
                /\ new[i].kind = old[i].kind
                /\ new[i].target = old[i].target
                /\ new[i].loc = old[i].loc
                /\ CallsMacro(old[i])
                   => new[i].value = CallOfResult(old[i])
                /\ ReadsMacro(old[i])
                   => new[i].value = CallOfIntrinsic(old[i])
                /\ (~CallsMacro(old[i]) /\ ~ReadsMacro(old[i]))
                   => new[i] = old[i]

\* C17, amended: as claimed for a macro function that returns a true
\* result; an assignment whose macro function returns None (or another
\* false value) is left as it was.
C17_ExpandedToCallIfResult ==
    LastExpanded >= 1
    => LET old == blocks_in[LastExpanded]
           new == blocks[LastExpanded]
       IN /\ Len(new) = Len(old)
          /\ \A i \in DOMAIN old :
                /\ new[i].kind = old[i].kind
                /\ new[i].target = old[i].target
                /\ new[i].loc = old[i].loc
                /\ (CallsMacro(old[i]) /\ ResultOf(old[i]) # "None")
                   => new[i].value = CallOfResult(old[i])
                /\ (CallsMacro(old[i]) /\ ResultOf(old[i]) = "None")
                   => new[i] = old[i]
                /\ ReadsMacro(old[i])
                   => new[i].value = CallOfIntrinsic(old[i])
                /\ (~CallsMacro(old[i]) /\ ~ReadsMacro(old[i]))
                   => new[i] = old[i]

\* C17 witness: expand_macros has returned, and an assignment r = f(k)
\* that called the callable Macro mac_ok is now the call of the function
\* the macro returned, with the argument k
C17_Witness ==
    /\ mpc.pass = "done"
    /\ \E b \in DOMAIN blocks : \E i \in DOMAIN blocks[b] :
          /\ CallsMacro(blocks_in[b][i])
          /\ blocks[b][i].value.val = "fn_mac_ok"
          /\ blocks[b][i].value.args = <<"k">>
          /\ blocks[b][i].target = "r"

\* the targets of the assignments of body whose value is a Global, a
\* Const or a FreeVar
ConstantTargets(body) ==
    {body[i].target : i \in {j \in DOMAIN body :
        body[j].kind = "Assign"
        /\ body[j].value.op \in {"global", "const", "freevar"}}}

\* C18: constant pool growth: no step removes a key of the pool; when
\* module_getattr_folding returns, the pool holds the target of every
\* assignment of the block from a Global, Const or FreeVar, from a Var
\* naming a constant pooled by then and from a getattr on one; a block is
\* rewritten only in its expansion pass, after its folding pass; and when
\* a block is expanded the pool holds the constants of that block and of
\* every block before it.
C18_PoolGrowth ==
    [][/\ KeysOf(constants) \subseteq KeysOf(constants')
       /\ (mpc.pass = "fold" /\ mpc'.pass = "expand")
          => LET body == blocks[mpc.blk]
             IN \A i \in DOMAIN body :
                   LET inst == body[i]
                       known == KeysOf(constants) \cup
                                ConstantTargets(SubSeq(body, 1, i - 1))
                   IN (/\ inst.kind = "Assign"
                       /\ \/ inst.value.op \in {"global", "const", "freevar"}
                          \/ /\ inst.value.op \in {"var", "getattr"}
                             /\ inst.value.ref \in known)
                      => inst.target \in KeysOf(constants')
       /\ mpc.pass = "expand"
          => \A b \in 1..mpc.blk :
                ConstantTargets(blocks_in[b]) \subseteq KeysOf(constants)
       /\ blocks' # blocks
          => (mpc.pass = "expand" /\ constants' = constants)
      ]_vars

\* C18 witness: the second block is being expanded; it calls f, which
\* only the first block defines, and the pool holds f
C18_Witness ==
    /\ mpc = [blk |-> 2, pass |-> "expand"]
    /\ "f" \in ConstantTargets(blocks_in[1])
    /\ \A i \in DOMAIN blocks_in[2] : blocks_in[2][i].target # "f"
    /\ \E i \in DOMAIN blocks_in[2] :
          IsCall(blocks_in[2][i]) /\ blocks_in[2][i].value.ref = "f"
    /\ HasKey(constants, "f")

====
